---- MODULE Spec2Model ----
(***************************************************************************)
(* A model of the ray tracer: texture wrapping (scene.rs), ray-sphere      *)
(* intersection and nearest-hit selection (rendering.rs), shading and      *)
(* image assembly (lib.rs).                                                *)
(*                                                                         *)
(* Numbers.  f32/f64 fractions are fixed-point integers in units of        *)
(* 1/Scale (1.0 is Scale).  Lengths (ray distances, vector components) are *)
(* integers in one length unit; the unit is chosen so that the constant    *)
(* 1.0e10 of Light::distance is DirectionalFar.  sqrt is the floor square  *)
(* root on that grid.  i32/u32 in wrap are WordBits wide.  NaN is not      *)
(* modelled: every distance is a number.                                   *)
(*                                                                         *)
(* Geometry.  Normalising a vector and the tangent of the field of view    *)
(* have no exact counterpart on an integer grid, so a ray built by         *)
(* create_prime is identified by its pixel and a primitive carries the set *)
(* of pixels whose primary ray hits it; a shadow ray is given by the       *)
(* intersect result of each primitive along it.  Sphere::intersect itself  *)
(* is computed on lattice vectors with axis-aligned unit directions.       *)
(***************************************************************************)
EXTENDS Integers, Sequences, FiniteSets, TLC

VARIABLES
    \* render (lib.rs 8-28)
    scene, image, log, claimed, cur_x, cur_y, pc,
    \* get_color (lib.rs 30-71)
    lights, material, li, color, last, shade_pc,
    \* Scene::trace (rendering.rs 53-58)
    intersections, traced,
    \* Sphere::intersect (rendering.rs 142-160)
    ray, sphere, hit,
    \* Coloration::color and wrap (scene.rs 59-86)
    skin, coords, overflow_checks, sample,
    \* where each call is: "call"/"loop" before it returns, then "done" or "panic"
    trace_pc, sphere_pc, wrap_pc

vars == <<scene, image, log, claimed, cur_x, cur_y, pc,
          lights, material, li, color, last, shade_pc,
          intersections, traced, ray, sphere, hit,
          skin, coords, overflow_checks, sample, trace_pc, sphere_pc, wrap_pc>>

render_vars == <<scene, image, log, claimed, cur_x, cur_y, pc>>
shade_vars == <<lights, material, li, color, last, shade_pc>>
trace_vars == <<intersections, traced, trace_pc>>
sphere_vars == <<ray, sphere, hit, sphere_pc>>
wrap_vars == <<skin, coords, sample, wrap_pc>>

-----------------------------------------------------------------------------
(* Bounds of the model *)

Scale == 10000      \* fixed-point resolution: 1.0 is Scale
WordBits == 5       \* modelled width of i32 and u32
MaxWidth == 3       \* image width and height range over 0..MaxWidth
MaxElems == 3       \* primitives of a traced scene
MaxDist == 3        \* near intersection distances range over -1..MaxDist
MaxLights == 2      \* lights of a shaded scene
MaxCoord == 2       \* lattice coordinates range over -MaxCoord..MaxCoord
MaxRadius == 2      \* sphere radii range over 1..MaxRadius

(* Program constants *)

DirectionalFar == 100   \* 1.0e10, each component of a directional light's distance
U8Max == 255            \* the 255.0 of the byte conversion; the largest u8

-----------------------------------------------------------------------------
(* Arithmetic *)

Abs(a) == IF a < 0 THEN -a ELSE a

Sgn(a) == IF a < 0 THEN -1 ELSE IF a > 0 THEN 1 ELSE 0

Max(a, b) == IF a >= b THEN a ELSE b

\* integer division truncating toward zero (float-to-int casts, Rust's /)
TruncDiv(a, b) == Sgn(a) * Sgn(b) * (Abs(a) \div Abs(b))

\* Rust's %: the remainder takes the sign of the dividend
Rem(a, b) == a - b * TruncDiv(a, b)

\* f64::sqrt on the integer grid: the largest r in lo..hi with r * r <= n
RECURSIVE sqrt_between(_, _, _)
sqrt_between(n, lo, hi) ==
    IF lo >= hi
    THEN lo
    ELSE LET mid == (lo + hi + 1) \div 2
         IN  IF mid * mid <= n
             THEN sqrt_between(n, mid, hi)
             ELSE sqrt_between(n, lo, mid - 1)

Sqrt(n) == sqrt_between(n, 0, IF n < 46340 THEN n ELSE 46340)

\* fixed-point product and quotient of two fractions
FMul(a, b) == TruncDiv(a * b, Scale)

FDiv(a, b) == TruncDiv(a * Scale, b)

\* std::f32::consts::PI
PI == (31416 * Scale) \div 10000

None == [some |-> FALSE]

Some(v) == [some |-> TRUE, val |-> v]

-----------------------------------------------------------------------------
(* scene.rs: Color *)

Color(r, g, b) == [red |-> r, green |-> g, blue |-> b]

Black == Color(0, 0, 0)

\* impl Add for Color
ColorAdd(a, b) == Color(a.red + b.red, a.green + b.green, a.blue + b.blue)

\* impl Mul<Color> for Color
ColorMul(a, b) ==
    Color(FMul(a.red, b.red), FMul(a.green, b.green), FMul(a.blue, b.blue))

\* impl Mul<f32> for Color
ColorScale(a, intensity) ==
    Color(FMul(a.red, intensity), FMul(a.green, intensity), FMul(a.blue, intensity))

(* scene.rs: Vector3 *)

Vector3(vx, vy, vz) == [x |-> vx, y |-> vy, z |-> vz]

\* impl Sub for Vector3
VSub(a, b) == Vector3(a.x - b.x, a.y - b.y, a.z - b.z)

dot(a, b) == a.x * b.x + a.y * b.y + a.z * b.z

norm(v) == v.x * v.x + v.y * v.y + v.z * v.z

euclidean_distance(v) == Sqrt(v.x * v.x + v.y * v.y + v.z * v.z)

-----------------------------------------------------------------------------
(* scene.rs: wrap and Coloration::color *)

I32Min == -(2 ^ (WordBits - 1))

I32Max == 2 ^ (WordBits - 1) - 1

U32Max == 2 ^ WordBits - 1

\* `bound as i32`: the same bits read as a signed integer
U32AsI32(u) == IF u > I32Max THEN u - 2 ^ WordBits ELSE u

\* `(... ) as u32` of an i32: the same bits read as an unsigned integer
I32AsU32(i) == IF i < 0 THEN i + 2 ^ WordBits ELSE i

\* `float_coord as i32`: truncation toward zero, saturating at the i32 range
F32AsI32(f) ==
    LET t == TruncDiv(f, Scale)
    IN  IF t < I32Min THEN I32Min ELSE IF t > I32Max THEN I32Max ELSE t

Panic == [panic |-> TRUE]

Index(i) == [panic |-> FALSE, idx |-> i]

\* fn wrap(val: f32, bound: u32) -> u32.  Rust panics on a remainder by zero and on
\* i32::MIN % -1 in every build; an overflowing + panics where overflow checks are
\* on (debug builds) and wraps where they are off (release builds).
wrap(val, bound) ==
    LET signed_bound == U32AsI32(bound)
        float_coord == val * bound
        as_int == F32AsI32(float_coord)
    IN  IF signed_bound = 0 \/ (as_int = I32Min /\ signed_bound = -1)
        THEN Panic
        ELSE LET wrapped_coord == Rem(as_int, signed_bound)
                 sum == wrapped_coord + signed_bound
             IN  IF wrapped_coord < 0
                 THEN IF sum < I32Min
                      THEN IF overflow_checks
                           THEN Panic
                           ELSE Index(I32AsU32(sum + 2 ^ WordBits))
                      ELSE Index(I32AsU32(sum))
                 ELSE Index(I32AsU32(wrapped_coord))

FlatSkin(c) == [kind |-> "Color", c |-> c]

\* Coloration::Texture: a decoded image of the given size; its pixels are a
\* two-colour chequerboard
Texture(w, h) == [kind |-> "Texture", width |-> w, height |-> h]

\* texture.get_pixel(x, y).to_rgb(): the image crate panics outside the image
get_pixel(texture, tx, ty) ==
    IF tx >= texture.width \/ ty >= texture.height
    THEN Panic
    ELSE [panic |-> FALSE,
          rgb |-> IF (tx + ty) % 2 = 0 THEN <<U8Max, U8Max, U8Max>> ELSE <<0, 0, 0>>]

\* Coloration::color
skin_color(s, tc) ==
    IF s.kind = "Color"
    THEN [panic |-> FALSE, c |-> s.c, tex |-> <<>>]
    ELSE LET tex_x == wrap(tc.x, s.width)
             tex_y == wrap(tc.y, s.height)
         IN  IF tex_x.panic \/ tex_y.panic
             THEN [panic |-> TRUE, tex |-> <<tex_x, tex_y>>]
             ELSE LET output == get_pixel(s, tex_x.idx, tex_y.idx)
                  IN  IF output.panic
                      THEN [panic |-> TRUE, tex |-> <<tex_x, tex_y>>]
                      ELSE [panic |-> FALSE,
                            c |-> Color(TruncDiv(output.rgb[1] * Scale, U8Max),
                                        TruncDiv(output.rgb[2] * Scale, U8Max),
                                        TruncDiv(output.rgb[3] * Scale, U8Max)),
                            tex |-> <<tex_x, tex_y>>]

TextureCoordinates(cx, cy) == [x |-> cx, y |-> cy]

-----------------------------------------------------------------------------
(* rendering.rs: Sphere::intersect *)

Ray(o, d) == [origin |-> o, direction |-> d]

Sphere(c, r) == [center |-> c, radius |-> r]

\* the locals of Sphere::intersect up to the two roots
sphere_roots(s, r) ==
    LET l == VSub(s.center, r.origin)
        adj == dot(l, r.direction)
        d2 == dot(l, l) - (adj * adj)
        radius2 == s.radius * s.radius
        thc == IF d2 > radius2 THEN 0 ELSE Sqrt(radius2 - d2)
    IN  [d2 |-> d2, radius2 |-> radius2, t0 |-> adj - thc, t1 |-> adj + thc]

\* impl Intersectable for Sphere: fn intersect
sphere_intersect(s, r) ==
    LET q == sphere_roots(s, r)
    IN  IF q.d2 > q.radius2
        THEN None
        ELSE IF q.t0 < 0 /\ q.t1 < 0
             THEN None
             ELSE LET distance == IF q.t0 < q.t1 THEN q.t0 ELSE q.t1
                  IN  Some(distance)

(* rendering.rs: Scene::trace *)

\* Intersection::new; the element is its index in scene.elements
Intersection(d, e) == [distance |-> d, element |-> e]

\* .filter_map(|s| s.intersect(ray).map(|d| Intersection::new(d, s))) over the
\* intersect result of every element, in the order of scene.elements
filter_map(dists) ==
    LET idx == SelectSeq([i \in 1..Len(dists) |-> i], LAMBDA i : dists[i].some)
    IN  [k \in 1..Len(idx) |-> Intersection(dists[idx[k]].val, idx[k])]

\* Iterator::min_by folds from the left and replaces the minimum so far only by a
\* strictly smaller element: of equal minima the first is returned
\* the comparison reversed: the fold keeps the largest distance
RECURSIVE min_fold_reversed(_, _, _)
min_fold_reversed(hits, k, best) ==
    IF k > Len(hits)
    THEN best
    ELSE min_fold_reversed(hits, k + 1,
                           IF best.distance < hits[k].distance THEN hits[k] ELSE best)

RECURSIVE min_fold(_, _, _)
min_fold(hits, k, best) ==
    IF k > Len(hits)
    THEN best
    ELSE min_fold(hits, k + 1,
                  IF best.distance > hits[k].distance THEN hits[k] ELSE best)

min_by(hits) == IF hits = <<>> THEN None ELSE Some(min_fold(hits, 2, hits[1]))

\* Scene::trace
trace(dists) == min_by(filter_map(dists))

-----------------------------------------------------------------------------
(* lib.rs: get_color *)

Light(k, i, c) == [kind |-> k, intensity |-> i, color |-> c]

Material(s, a) == [skin |-> s, albedo |-> a]

\* What one light's iteration of get_color reads of the geometry at the hit point:
\* ndotl is surface_normal.dot(&direction_to_light), shadow the intersect result of
\* every element along the shadow ray, to_light is s.point - hit_point (spherical
\* lights), tc the texture coordinates of the hit point
Geometry(n, sh, tl, tc) == [ndotl |-> n, shadow |-> sh, to_light |-> tl, tc |-> tc]

\* Light::distance
light_distance(light, to_light) ==
    IF light.kind = "Directional"
    THEN Vector3(DirectionalFar, DirectionalFar, DirectionalFar)
    ELSE to_light

\* let in_light = ...
in_light(shadow_intersection, light, to_light) ==
    \/ ~shadow_intersection.some
    \/ shadow_intersection.val.distance
           > euclidean_distance(light_distance(light, to_light))

\* let light_intensity = match light { ... }
light_intensity(light, lit, to_light) ==
    IF light.kind = "Directional"
    THEN IF lit THEN light.intensity ELSE 0
    ELSE LET r2 == norm(to_light)
         IN  FDiv(light.intensity, FMul(4 * Scale, PI) * r2)

\* the body of `for light in &scene.lights`
shade_light(light, g, mat) ==
    LET shadow_intersection == trace(g.shadow)
        lit == in_light(shadow_intersection, light, g.to_light)
        intensity == light_intensity(light, lit, g.to_light)
        light_power == FMul(Max(g.ndotl, 0), intensity)
        light_reflected == FDiv(mat.albedo, PI)
        light_color == ColorScale(ColorScale(light.color, light_power), light_reflected)
        surface == skin_color(mat.skin, g.tc)
    IN  [light |-> light, geometry |-> g,
         shadow_intersection |-> shadow_intersection,
         in_light |-> lit,
         light_intensity |-> intensity,
         panic |-> surface.panic,
         contribution |-> IF surface.panic THEN Black
                          ELSE ColorMul(surface.c, light_color)]

\* get_color: the loop over scene.lights from light i on, with the colour so far
RECURSIVE shade_from(_, _, _, _, _)
shade_from(ls, gs, mat, i, acc) ==
    IF i > Len(ls)
    THEN acc
    ELSE shade_from(ls, gs, mat, i + 1,
                    ColorAdd(acc, shade_light(ls[i], gs[i], mat).contribution))

get_color(sc, intersection) ==
    shade_from(sc.lights, sc.geometry, sc.elements[intersection.element].material,
               1, Black)

-----------------------------------------------------------------------------
(* lib.rs: render *)

\* Ray::create_prime: the assertion, and the ray through pixel (x, y)
create_prime(px, py, sc) ==
    IF sc.width > sc.height
    THEN [panic |-> FALSE, ray |-> [pixel |-> <<px, py>>]]
    ELSE Panic

\* Element::intersect for a primary ray
element_intersect(e, r) == IF r.pixel \in e.footprint THEN Some(e.depth) ELSE None

\* scene.trace(&ray) for a primary ray
scene_trace(sc, r) ==
    trace([i \in 1..Len(sc.elements) |-> element_intersect(sc.elements[i], r)])

\* the conversion rounding to the nearest integer instead of truncating
F32AsU8_rounding(c) ==
    LET t == TruncDiv(c * U8Max + Sgn(c) * (Scale \div 2), Scale)
    IN  IF t < 0 THEN 0 ELSE IF t > U8Max THEN U8Max ELSE t

\* `(c * 255.0) as u8`: truncation toward zero, saturating at the u8 range
F32AsU8(c) ==
    LET t == TruncDiv(c * U8Max, Scale)
    IN  IF t < 0 THEN 0 ELSE IF t > U8Max THEN U8Max ELSE t

\* green and blue passed in the order the locals are declared (r, b, g)
from_channels_swapped(r, g, b) == [r |-> r, g |-> b, b |-> g]

\* Rgba::from_channels(r, g, b, 0) stored in an RGB image
from_channels(r, g, b) == [r |-> r, g |-> g, b |-> b]

\* let background = Rgba::from_channels(50, 100, 220, 0)
background == from_channels(50, 100, 220)

\* the pixel render computes for (x, y): the match on scene.trace(&ray)
pixel_value(sc, px, py) ==
    LET found == scene_trace(sc, create_prime(px, py, sc).ray)
    IN  IF found.some
        THEN LET c == get_color(sc, found.val)
                 r == F32AsU8(c.red)
                 b == F32AsU8(c.blue)
                 g == F32AsU8(c.green)
             IN  from_channels(r, g, b)
        ELSE background

\* DynamicImage::new_rgb8(width, height): every pixel zero
new_rgb8(w, h) == [p \in (0..(w - 1)) \X (0..(h - 1)) |-> from_channels(0, 0, 0)]

\* a write that also spills into the next column's pixel of the same row
put_pixel_spilling(img, px, py, v) ==
    [p \in DOMAIN img |->
        IF p = <<px, py>> \/ p = <<px + 1, py>> THEN v ELSE img[p]]

\* image.put_pixel(x, y, pixel)
put_pixel(img, px, py, v) == [img EXCEPT ![<<px, py>>] = v]

\* the loops nested the other way round: y outside, x inside
loop_next_rows(sc, px, py) ==
    IF px + 1 < sc.width
    THEN <<px + 1, py>>
    ELSE IF py + 1 < sc.height THEN <<0, py + 1>> ELSE <<sc.width, 0>>

\* the loop counters after the iteration for (x, y) of
\* `for x in 0..scene.width { for y in 0..scene.height { ... } }`
loop_next(sc, px, py) ==
    IF py + 1 < sc.height THEN <<px, py + 1>> ELSE <<px + 1, 0>>

\* both loops are exhausted (an empty inner range runs no iteration at all)
loop_done(sc, px, py) == px >= sc.width \/ sc.height = 0

-----------------------------------------------------------------------------
(* The calls that are not running in a specification *)

RenderIdle ==
    /\ scene = <<>> /\ image = <<>> /\ log = <<>> /\ claimed = {}
    /\ cur_x = 0 /\ cur_y = 0 /\ pc = "idle"

ShadeIdle ==
    /\ lights = <<>> /\ material = <<>> /\ li = 0 /\ color = Black
    /\ last = [light |-> [kind |-> "none"]] /\ shade_pc = "idle"

TraceIdle == intersections = <<>> /\ traced = None /\ trace_pc = "idle"

SphereIdle == ray = <<>> /\ sphere = <<>> /\ hit = None /\ sphere_pc = "idle"

WrapIdle ==
    /\ skin = <<>> /\ coords = <<>> /\ sample = <<>> /\ wrap_pc = "idle"

-----------------------------------------------------------------------------
(* Coloration::color on a texture *)

\* texture dimensions: the small ones and the ones around the i32 and u32 limits
TexDims == {1, 2, 3, I32Max, I32Max + 1, I32Max + 2, U32Max - 1, U32Max}

\* texture coordinates: fractions either side of zero, and one beyond the i32 range
TexCoords ==
    {-(2 * Scale), -(Scale + Scale \div 4), -Scale, -(Scale \div 2), -1, 0,
     Scale \div 4, Scale \div 2, Scale, Scale + Scale \div 4, 2 * Scale,
     (U32Max + 1) * Scale}

InitWrap ==
    /\ skin \in {Texture(w, h) : w \in TexDims, h \in TexDims}
    /\ coords \in {TextureCoordinates(cx, cy) : cx \in TexCoords, cy \in TexCoords}
    /\ overflow_checks \in BOOLEAN
    /\ sample = <<>>
    /\ wrap_pc = "call"
    /\ RenderIdle /\ ShadeIdle /\ TraceIdle /\ SphereIdle

ColorAt ==
    /\ wrap_pc = "call"
    /\ sample' = skin_color(skin, coords)
    /\ wrap_pc' = IF skin_color(skin, coords).panic THEN "panic" ELSE "done"
    /\ UNCHANGED <<skin, coords, overflow_checks>>
    /\ UNCHANGED <<render_vars, shade_vars, trace_vars, sphere_vars>>

NextWrap == ColorAt

SpecWrap == InitWrap /\ [][NextWrap]_vars

\* C6: for every finite coordinate and every positive texture dimension, wrap returns
\* an index in [0, bound): once Coloration::color has run on a texture, both wrapped
\* coordinates exist (wrap did not panic) and lie inside the image.
C6_WrapInBounds ==
    wrap_pc \in {"done", "panic"} =>
        /\ ~sample.tex[1].panic /\ sample.tex[1].idx \in 0..(skin.width - 1)
        /\ ~sample.tex[2].panic /\ sample.tex[2].idx \in 0..(skin.height - 1)

-----------------------------------------------------------------------------
(* Scene::trace on the intersect results of up to MaxElems elements *)

\* an element's intersect result: absent, or a distance (Sphere::intersect can
\* return a negative one)
OptDistances == {None} \cup {Some(d) : d \in (-1)..MaxDist}

InitTrace ==
    /\ intersections \in UNION {[1..n -> OptDistances] : n \in 0..MaxElems}
    /\ traced = None
    /\ trace_pc = "call"
    /\ overflow_checks = TRUE
    /\ RenderIdle /\ ShadeIdle /\ SphereIdle /\ WrapIdle

Trace ==
    /\ trace_pc = "call"
    /\ traced' = trace(intersections)
    /\ trace_pc' = "done"
    /\ UNCHANGED <<intersections, overflow_checks>>
    /\ UNCHANGED <<render_vars, shade_vars, sphere_vars, wrap_vars>>

NextTrace == Trace

SpecTrace == InitTrace /\ [][NextTrace]_vars

\* the distances d1..dN that are present
PresentDistances ==
    {intersections[i].val : i \in {j \in 1..Len(intersections) : intersections[j].some}}

\* C3: trace returns absent exactly when every di is absent, and otherwise an
\* intersection whose distance is the minimum of the present distances and whose
\* element is a primitive that produced that distance.
C3_NearestHit ==
    trace_pc = "done" =>
        /\ traced.some <=> PresentDistances # {}
        /\ traced.some =>
              /\ traced.val.distance \in PresentDistances
              /\ \A d \in PresentDistances : traced.val.distance <= d
              /\ traced.val.element \in 1..Len(intersections)
              /\ intersections[traced.val.element] = Some(traced.val.distance)

\* trace has returned for three elements, one absent, the nearest one not the first
C3_Witness ==
    /\ trace_pc = "done"
    /\ Len(intersections) = 3
    /\ \E i \in 1..3 : ~intersections[i].some
    /\ intersections[1].some
    /\ traced.some /\ traced.val.element > 1
    /\ traced.val.distance < intersections[1].val

-----------------------------------------------------------------------------
(* Sphere::intersect on lattice rays and spheres *)

Lattice ==
    {Vector3(a, b, c) : a \in (-MaxCoord)..MaxCoord, b \in (-MaxCoord)..MaxCoord,
                        c \in (-MaxCoord)..MaxCoord}

\* the unit vectors of the lattice
UnitVectors ==
    {Vector3(1, 0, 0), Vector3(-1, 0, 0), Vector3(0, 1, 0), Vector3(0, -1, 0),
     Vector3(0, 0, 1), Vector3(0, 0, -1)}

Centers == {Vector3(0, 0, 0), Vector3(0, 0, -MaxCoord), Vector3(1, 0, -1)}

InitSphere ==
    /\ ray \in {Ray(o, d) : o \in Lattice, d \in UnitVectors}
    /\ sphere \in {Sphere(c, r) : c \in Centers, r \in 1..MaxRadius}
    /\ hit = None
    /\ sphere_pc = "call"
    /\ overflow_checks = TRUE
    /\ RenderIdle /\ ShadeIdle /\ TraceIdle /\ WrapIdle

Intersect ==
    /\ sphere_pc = "call"
    /\ hit' = sphere_intersect(sphere, ray)
    /\ sphere_pc' = "done"
    /\ UNCHANGED <<ray, sphere, overflow_checks>>
    /\ UNCHANGED <<render_vars, shade_vars, trace_vars, wrap_vars>>

NextSphere == Intersect

SpecSphere == InitSphere /\ [][NextSphere]_vars

\* C2: when the perpendicular-distance test passes, Sphere::intersect returns no hit
\* if both roots are negative and otherwise the nearer non-negative root, so every
\* returned distance is >= 0, also for a ray that starts inside the sphere.
C2_NearerNonNegativeRoot ==
    LET q == sphere_roots(sphere, ray)
    IN  (sphere_pc = "done" /\ q.d2 <= q.radius2) =>
            /\ (q.t0 < 0 /\ q.t1 < 0) => hit = None
            /\ ~(q.t0 < 0 /\ q.t1 < 0) => hit = Some(IF q.t0 >= 0 THEN q.t0 ELSE q.t1)
            /\ hit.some => hit.val >= 0

-----------------------------------------------------------------------------
(* get_color at one hit point: the loop over the lights *)

White == Color(Scale, Scale, Scale)

\* the lights: either kind, intensity 1.0 or 3.0
Lamps ==
    {Light(k, i, White) : k \in {"Directional", "Spherical"}, i \in {Scale, 3 * Scale}}

\* the materials of the test scene's first sphere, and of a textured primitive
Materials ==
    {Material(FlatSkin(Color((4 * Scale) \div 10, Scale, (4 * Scale) \div 10)),
              Scale \div 2),
     Material(Texture(2, 2), 2 * Scale)}

\* the distance from the hit point at which a directional light is taken to be
DirectionalReach ==
    euclidean_distance(Vector3(DirectionalFar, DirectionalFar, DirectionalFar))

\* what an element returns along a shadow ray: no hit, a hit nearer than any light,
\* a hit at the distance of the nearer spherical light, a hit beyond
\* DirectionalReach
ShadowResults == {None, Some(1), Some(2), Some(DirectionalReach + 1)}

\* s.point - hit_point for a spherical light: of length 2 and of length 3
ToLights == {Vector3(0, 0, 2), Vector3(1, 2, 2)}

Geometries ==
    {Geometry(n, sh, tl, TextureCoordinates(cx, 0)) :
        n \in {-(Scale \div 2), Scale \div 2, Scale},
        sh \in [1..2 -> ShadowResults],
        tl \in ToLights,
        cx \in {Scale \div 4, -(Scale \div 4)}}

InitShade ==
    /\ lights \in UNION {[1..n -> Lamps] : n \in 1..MaxLights}
    /\ material \in Materials
    /\ li = 1
    /\ color = Black
    /\ last = [light |-> [kind |-> "none"]]
    /\ shade_pc = "loop"
    /\ overflow_checks = TRUE
    /\ RenderIdle /\ TraceIdle /\ SphereIdle /\ WrapIdle

\* one iteration of `for light in &scene.lights`
ShadeLight ==
    /\ shade_pc = "loop"
    /\ li <= Len(lights)
    /\ \E g \in Geometries : last' = shade_light(lights[li], g, material)
    /\ color' = ColorAdd(color, last'.contribution)
    /\ li' = li + 1
    /\ UNCHANGED <<lights, material, shade_pc, overflow_checks>>
    /\ UNCHANGED <<render_vars, trace_vars, sphere_vars, wrap_vars>>

\* the loop is over: get_color returns color
ShadeReturn ==
    /\ shade_pc = "loop"
    /\ li > Len(lights)
    /\ shade_pc' = "done"
    /\ UNCHANGED <<lights, material, li, color, last, overflow_checks>>
    /\ UNCHANGED <<render_vars, trace_vars, sphere_vars, wrap_vars>>

NextShade == ShadeLight \/ ShadeReturn

SpecShade == InitShade /\ [][NextShade]_vars

\* the shadow ray of the last iteration hit a primitive nearer than the light
Occluded ==
    /\ last.shadow_intersection.some
    /\ last.shadow_intersection.val.distance
           < euclidean_distance(last.geometry.to_light)

\* C1: a spherical light's contribution to the accumulated colour is zero if and
\* only if its shadow ray hits a primitive nearer than the light; in particular an
\* occluded spherical light contributes zero.  ("Only if" is read for a light that
\* can contribute at all: one that the surface faces.)
C1_SphericalShadow ==
    last.light.kind = "Spherical" =>
        /\ Occluded => last.contribution = Black
        /\ (last.contribution = Black /\ last.geometry.ndotl > 0) => Occluded

\* C8: for a directional light any shadow-ray hit, at whatever distance, blocks the
\* light: its intensity at the hit point is its fixed intensity when the shadow ray
\* hits nothing and zero whenever the shadow ray hits a primitive.
C8_DirectionalShadow ==
    last.light.kind = "Directional" =>
        last.light_intensity =
            IF last.shadow_intersection.some THEN 0 ELSE last.light.intensity

-----------------------------------------------------------------------------
(* render *)

Pixels(w, h) == (0..(w - 1)) \X (0..(h - 1))

\* a lit hit point: the surface faces the light, nothing along the shadow ray
Lit == Geometry(Scale, <<None, None>>, Vector3(0, 0, 1), TextureCoordinates(0, 0))

\* a hit point half turned away, with the second element along the shadow ray
Shaded ==
    Geometry(Scale \div 2, <<None, Some(1)>>, Vector3(0, 0, 2), TextureCoordinates(0, 0))

\* the lights of a rendered scene with the geometry at its hit points: one
\* directional light; a strong directional and a spherical light; a directional
\* light of negative intensity
Rigs ==
    {[lights |-> <<Light("Directional", Scale, White)>>, geometry |-> <<Lit>>],
     [lights |-> <<Light("Directional", 3 * Scale, White),
                   Light("Spherical", 3 * Scale, Color(Scale, Scale, 0))>>,
      geometry |-> <<Lit, Shaded>>],
     [lights |-> <<Light("Directional", -Scale, White)>>, geometry |-> <<Lit>>]}

\* a scene of two elements: a backdrop that every primary ray hits or none does,
\* and in front of it a sphere that the primary rays of the pixels of fp hit
RenderScene(w, h, fp, backdrop, rig) ==
    [width |-> w, height |-> h,
     elements |->
        <<[material |->
               Material(FlatSkin(Color(Scale, Scale, (4 * Scale) \div 10)), 2 * Scale),
           footprint |-> IF backdrop THEN Pixels(w, h) ELSE {},
           depth |-> 3],
          [material |->
               Material(FlatSkin(Color((4 * Scale) \div 10, Scale, (4 * Scale) \div 10)),
                        Scale \div 2),
           footprint |-> fp,
           depth |-> 2]>>,
     lights |-> rig.lights,
     geometry |-> rig.geometry]

\* the pixels a sphere can cover: none, or those of columns x0..x1 and rows y0..y1
Footprints(w, h) ==
    {{}} \cup {(x0..x1) \X (y0..y1) :
                   x0 \in 0..(w - 1), x1 \in 0..(w - 1), y0 \in 0..(h - 1), y1 \in 0..(h - 1)}

\* a footprint that no rectangle gives: every other pixel
Patterns(w, h) == {{p \in Pixels(w, h) : (p[1] + p[2]) % 2 = 0}}

\* render as one call: the loops from (x, y) on, sequentially
RECURSIVE render_from(_, _, _, _)
render_from(sc, img, px, py) ==
    IF loop_done(sc, px, py)
    THEN [panic |-> FALSE, image |-> img]
    ELSE IF create_prime(px, py, sc).panic
         THEN [panic |-> TRUE, image |-> img]
         ELSE LET after == loop_next(sc, px, py)
              IN  render_from(sc, put_pixel(img, px, py, pixel_value(sc, px, py)),
                              after[1], after[2])

render(sc) == render_from(sc, new_rgb8(sc.width, sc.height), 0, 0)

RenderStart ==
    /\ image = new_rgb8(scene.width, scene.height)
    /\ log = <<>>
    /\ claimed = {}
    /\ cur_x = 0
    /\ cur_y = 0
    /\ pc = "loop"
    /\ overflow_checks = TRUE
    /\ ShadeIdle /\ TraceIdle /\ SphereIdle /\ WrapIdle

\* every scene of at most MaxWidth by MaxWidth pixels; a scene that create_prime
\* rejects needs no footprint
Init ==
    /\ \E w \in 0..MaxWidth, h \in 0..MaxWidth :
          \E fp \in IF w > h THEN Footprints(w, h) ELSE {{}}, b \in BOOLEAN, rig \in Rigs :
              scene = RenderScene(w, h, fp, b, rig)
    /\ RenderStart

\* one iteration of the inner loop: the pixel (cur_x, cur_y) is traced and written
RenderPixel ==
    /\ pc = "loop"
    /\ ~loop_done(scene, cur_x, cur_y)
    /\ ~create_prime(cur_x, cur_y, scene).panic
    /\ image' = put_pixel(image, cur_x, cur_y, pixel_value(scene, cur_x, cur_y))
    /\ log' = Append(log, <<cur_x, cur_y>>)
    /\ claimed' = claimed \cup {<<cur_x, cur_y>>}
    /\ cur_x' = loop_next(scene, cur_x, cur_y)[1]
    /\ cur_y' = loop_next(scene, cur_x, cur_y)[2]
    /\ UNCHANGED <<scene, pc, overflow_checks>>
    /\ UNCHANGED <<shade_vars, trace_vars, sphere_vars, wrap_vars>>

\* the assertion of create_prime fails
PrimeAssert ==
    /\ pc = "loop"
    /\ ~loop_done(scene, cur_x, cur_y)
    /\ create_prime(cur_x, cur_y, scene).panic
    /\ pc' = "panic"
    /\ UNCHANGED <<scene, image, log, claimed, cur_x, cur_y, overflow_checks>>
    /\ UNCHANGED <<shade_vars, trace_vars, sphere_vars, wrap_vars>>

\* both loops are over: render returns the image
RenderReturn ==
    /\ pc = "loop"
    /\ loop_done(scene, cur_x, cur_y)
    /\ pc' = "done"
    /\ UNCHANGED <<scene, image, log, claimed, cur_x, cur_y, overflow_checks>>
    /\ UNCHANGED <<shade_vars, trace_vars, sphere_vars, wrap_vars>>

Next == RenderPixel \/ PrimeAssert \/ RenderReturn

Spec == Init /\ [][Next]_vars

(* render with the iterations of its loops taken in any order *)

InitAnyOrder ==
    /\ \E w \in 0..MaxWidth, h \in 0..MaxWidth :
          \E fp \in IF w > h THEN Patterns(w, h) ELSE {{}}, b \in BOOLEAN, rig \in Rigs :
              scene = RenderScene(w, h, fp, b, rig)
    /\ RenderStart

\* the iteration for a pixel that no iteration has taken yet
AnyPixel ==
    /\ pc = "loop"
    /\ \E p \in Pixels(scene.width, scene.height) \ claimed :
          /\ ~create_prime(p[1], p[2], scene).panic
          /\ image' = put_pixel(image, p[1], p[2], pixel_value(scene, p[1], p[2]))
          /\ claimed' = claimed \cup {p}
    /\ UNCHANGED <<scene, log, cur_x, cur_y, pc, overflow_checks>>
    /\ UNCHANGED <<shade_vars, trace_vars, sphere_vars, wrap_vars>>

AnyAssert ==
    /\ pc = "loop"
    /\ \E p \in Pixels(scene.width, scene.height) \ claimed :
          create_prime(p[1], p[2], scene).panic
    /\ pc' = "panic"
    /\ UNCHANGED <<scene, image, log, claimed, cur_x, cur_y, overflow_checks>>
    /\ UNCHANGED <<shade_vars, trace_vars, sphere_vars, wrap_vars>>

AnyReturn ==
    /\ pc = "loop"
    /\ claimed = Pixels(scene.width, scene.height)
    /\ pc' = "done"
    /\ UNCHANGED <<scene, image, log, claimed, cur_x, cur_y, overflow_checks>>
    /\ UNCHANGED <<shade_vars, trace_vars, sphere_vars, wrap_vars>>

NextAnyOrder == AnyPixel \/ AnyAssert \/ AnyReturn

SpecAnyOrder == InitAnyOrder /\ [][NextAnyOrder]_vars

-----------------------------------------------------------------------------
(* Claims about render *)

ScenePixels == Pixels(scene.width, scene.height)

\* the colour get_color returns for pixel p, whose primary ray hits something
ShadedColor(p) == get_color(scene, scene_trace(scene, [pixel |-> p]).val)

\* the primary ray of pixel p hits an element
IsHit(p) == scene_trace(scene, [pixel |-> p]).some

\* c * 255.0 truncated toward zero, as an integer of any size
Scaled(c) == TruncDiv(c * 255, Scale)

\* C4: render called with a scene whose width is not greater than its height
\* (width = 0 and width = height included) panics at once, before any pixel is
\* written, and never returns an image.
C4_PanicsUnlessLandscape ==
    scene.width <= scene.height =>
        /\ pc # "done"
        /\ log = <<>>
        /\ pc = "loop" => (cur_x = 0 /\ cur_y = 0)

\* C5: when render returns for a scene with width > height, every pixel of
\* [0, width) x [0, height) has been written exactly once and nothing else has; a
\* pixel whose primary ray hits nothing holds the background (50, 100, 220), any
\* other holds the byte conversion of get_color for its intersection.
C5_RasterComplete ==
    (pc = "done" /\ scene.width > scene.height) =>
        /\ DOMAIN image = ScenePixels
        /\ \A k \in 1..Len(log) : log[k] \in ScenePixels
        /\ \A p \in ScenePixels : Cardinality({k \in 1..Len(log) : log[k] = p}) = 1
        /\ \A p \in ScenePixels :
              image[p] = IF IsHit(p)
                         THEN [r |-> F32AsU8(ShadedColor(p).red),
                               g |-> F32AsU8(ShadedColor(p).green),
                               b |-> F32AsU8(ShadedColor(p).blue)]
                         ELSE [r |-> 50, g |-> 100, b |-> 220]

\* render has returned a 3 by 2 image with a hit pixel and a background pixel
C5_Witness ==
    /\ pc = "done"
    /\ scene.width = 3 /\ scene.height = 2
    /\ \E p \in ScenePixels : IsHit(p) /\ image[p] # [r |-> 50, g |-> 100, b |-> 220]
    /\ \E p \in ScenePixels : ~IsHit(p)

\* C9 as stated: the pixels are written in row-major order, every pixel of row y
\* before any pixel of row y + 1 and a row in increasing x.
C9_RowMajor ==
    \A i, j \in 1..Len(log) :
        i < j => \/ log[i][2] < log[j][2]
                 \/ (log[i][2] = log[j][2] /\ log[i][1] < log[j][1])

\* C9 amended: the pixels are written in column-major order: the k-th write is to
\* pixel (x, y) with x = (k - 1) div height and y = (k - 1) mod height, so every
\* pixel of column x is written before any pixel of column x + 1 and a column in
\* increasing y.
C9_ColumnMajor ==
    \A k \in 1..Len(log) :
        log[k] = <<(k - 1) \div scene.height, (k - 1) % scene.height>>

\* render has returned an image of three columns and two rows
C9_Witness == pc = "done" /\ Len(log) = 6 /\ scene.width = 3 /\ scene.height = 2

\* C10 as stated: each channel is c * 255 truncated toward zero and then narrowed to
\* 8 bits without saturation: a value outside [0, 255] wraps modulo 256.
C10_WrapsOnOverflow ==
    \A p \in claimed :
        IsHit(p) =>
            /\ image[p].r = Scaled(ShadedColor(p).red) % 256
            /\ image[p].g = Scaled(ShadedColor(p).green) % 256
            /\ image[p].b = Scaled(ShadedColor(p).blue) % 256

\* the byte the conversion yields for channel c
Saturated(c) ==
    IF Scaled(c) < 0 THEN 0 ELSE IF Scaled(c) > 255 THEN 255 ELSE Scaled(c)

\* C10 amended: each channel is c * 255 truncated toward zero, without rounding, and
\* the cast to u8 saturates: a value above 255 gives 255 and a negative value 0.
C10_TruncatesAndSaturates ==
    \A p \in claimed :
        IsHit(p) =>
            /\ image[p].r = Saturated(ShadedColor(p).red)
            /\ image[p].g = Saturated(ShadedColor(p).green)
            /\ image[p].b = Saturated(ShadedColor(p).blue)

\* a written pixel with a channel above the byte range, one with a channel below
\* it, or one in range whose scaled value has a fraction of a half or more
C10_Witness ==
    /\ \E p \in claimed : IsHit(p) /\ Scaled(ShadedColor(p).red) > 255
    /\ \E p \in claimed :
          /\ IsHit(p)
          /\ Scaled(ShadedColor(p).blue) \in 0..254
          /\ (ShadedColor(p).blue * 255) % Scale >= Scale \div 2

\* a written pixel with a negative channel
C10_WitnessNegative ==
    \E p \in claimed : IsHit(p) /\ Scaled(ShadedColor(p).red) < 0 /\ image[p].r = 0

\* C7: the value written for a pixel depends only on its coordinates and the scene:
\* with the iterations taken in any order, every pixel written so far holds what the
\* sequential loop leaves there, the run panics exactly if the sequential loop does,
\* and the final raster is the sequential loop's.
C7_OrderIndependent ==
    LET sequential == render(scene)
    IN  /\ \A p \in claimed : image[p] = sequential.image[p]
        /\ pc = "done" => (~sequential.panic /\ image = sequential.image)
        /\ pc = "panic" => (sequential.panic /\ image = sequential.image)

\* the last pixel of the sequential order is written, a background pixel, while the
\* first, which the sphere covers, is not yet
C7_Witness ==
    /\ pc = "loop"
    /\ scene.width = 3 /\ scene.height = 2
    /\ <<2, 1>> \in claimed /\ <<0, 0>> \notin claimed
    /\ ~IsHit(<<2, 1>>) /\ IsHit(<<0, 0>>)
    /\ image[<<2, 1>>] = [r |-> 50, g |-> 100, b |-> 220]

====
